---------------------------- MODULE Spec2Model ----------------------------
(***************************************************************************)
(* A model of the matcher framework (the header with namespace m:          *)
(* find_matches, find_insn_match, the predicate combinators, the operand   *)
(* projections, is_assignable_to) and of MethodProfiles' csv ingestion     *)
(* (parse_stats_file, parse_line, parse_header).                           *)
(*                                                                         *)
(* The module holds four specifications over one set of variables:         *)
(*   Spec      the sequence matcher and the single-predicate scan          *)
(*   SpecPred  the evaluation of a predicate on one entity                 *)
(*   SpecHier  the type-hierarchy walk                                     *)
(*   SpecCsv   the ingestion of method statistics                          *)
(* Each specification leaves the variables of the other parts idle.        *)
(***************************************************************************)
EXTENDS Integers, Sequences, FiniteSets, TLC

VARIABLES
    \* --- sequence matcher ---
    insns,        \* the instruction list (IRInstruction pointers as ids)
    pattern,      \* the tuple of position predicates
    matches,      \* the caller's vector<vector<IRInstruction*>>
    matches0,     \* matches as it was before the last find_matches call
    found,        \* the caller's vector<IRInstruction*> of find_insn_match
    found0,       \* found as it was before the last find_insn_match call
    last_p,       \* the predicate of the last find_insn_match call
    seqlog,       \* what the last call did: evaluations and copies, in order
    last,         \* the last operation called
    calls,        \* the number of calls made
    \* --- predicate evaluation ---
    pred,         \* the predicate built by the pass
    subject,      \* the entity it is applied to
    accepts,      \* what each leaf lambda answers, per entity
    outcome,      \* the result of matches(): value, leaf invocations, error
    \* --- type hierarchy ---
    hierarchy,    \* type -> its class definition (or unresolved)
    child,        \* the candidate type
    parent,       \* the target type
    answer,       \* the result of the walk
    \* --- csv ingestion ---
    m_method_stats, \* the mapping method reference -> Stats
    errno,          \* the C library's errno
    fp,             \* the open file: the lines not yet read
    first,          \* parse_stats_file's local `first`
    pc,             \* where parse_stats_file is
    ret,            \* what the last parse_stats_file call returned
    cause,          \* why the last call failed
    stats0,         \* m_method_stats when the current call started
    rows,           \* the data rows parse_line has handled in this call
    nfiles          \* the number of parse_stats_file calls started

seqVars  == <<insns, pattern, matches, matches0, found, found0, last_p, seqlog, last, calls>>
predVars == <<pred, subject, accepts, outcome>>
hierVars == <<hierarchy, child, parent, answer>>
csvVars  == <<m_method_stats, errno, fp, first, pc, ret, cause, stats0, rows, nfiles>>
vars     == <<seqVars, predVars, hierVars, csvVars>>

(***************************************************************************)
(* Bounds of the model.                                                    *)
(***************************************************************************)
MaxLen   == 4      \* longest instruction list
MaxPat   == 2      \* longest pattern
MaxCalls == 2      \* calls on the same output vectors

\* ---------------------------------------------------------------- helpers
RECURSIVE SeqsUpTo(_, _)
SeqsUpTo(S, n) ==
    IF n = 0 THEN {<<>>}
    ELSE LET shorter == SeqsUpTo(S, n - 1)
         IN  shorter \cup {Append(s, x) : s \in {t \in shorter : Len(t) = n - 1}, x \in S}

(***************************************************************************)
(* SEQUENCE MATCHER                                                        *)
(***************************************************************************)
\* The instruction objects the list points to.
InsnIds == {"i1", "i2"}

\* A position predicate is a match_t over IRInstruction; a pure lambda is the
\* set of instructions it accepts.
PosPreds == SUBSET InsnIds

\* match_t::matches: apply the wrapped callable.
PMatches(p, insn) == insn \in p

\* std::vector::at(i), i zero-based: in range or std::out_of_range.
InRange(v, i) == i >= 0 /\ i < Len(v)
At(v, i) == v[i + 1]

\* insns_matcher<T, N>::matches_at: reads insns.at(at), applies the N-th
\* predicate and recurses on at + 1 only if it matched; the base case
\* (N = tuple size) reads nothing and is true.
\* matches_at with a non-short-circuit conjunction: the rest of the window is
\* evaluated whether or not this position matched.
RECURSIVE MatchesAtEager(_, _, _, _)
MatchesAtEager(at, v, t, n) ==
    IF n = Len(t) THEN [ok |-> TRUE, log |-> <<>>, threw |-> FALSE]
    ELSE IF ~InRange(v, at)
         THEN [ok |-> FALSE, log |-> <<[ev |-> "read", pos |-> n, at |-> at]>>, threw |-> TRUE]
    ELSE LET e == [ev |-> "eval", pos |-> n, at |-> at]
             r == MatchesAtEager(at + 1, v, t, n + 1)
         IN  [ok |-> PMatches(t[n + 1], At(v, at)) /\ r.ok,
              log |-> <<e>> \o r.log, threw |-> r.threw]
RECURSIVE matches_at(_, _, _, _)
matches_at(at, v, t, n) ==
    IF n = Len(t) THEN [ok |-> TRUE, log |-> <<>>, threw |-> FALSE]
    ELSE IF ~InRange(v, at)
         THEN [ok |-> FALSE, log |-> <<[ev |-> "read", pos |-> n, at |-> at]>>, threw |-> TRUE]
    ELSE LET e == [ev |-> "eval", pos |-> n, at |-> at]
         IN  IF PMatches(t[n + 1], At(v, at))
             THEN LET r == matches_at(at + 1, v, t, n + 1)
                  IN  [ok |-> r.ok, log |-> <<e>> \o r.log, threw |-> r.threw]
             ELSE [ok |-> FALSE, log |-> <<e>>, threw |-> FALSE]

\* The inner copy loop: matching_insns.push_back(insns.at(i + c)) for c < N.
RECURSIVE CopyWindow(_, _, _, _)
CopyWindow(v, i, c, N) ==
    IF c >= N THEN <<>>
    ELSE <<At(v, i + c)>> \o CopyWindow(v, i, c + 1, N)

CopyLog(i, N) == [c \in 1..N |-> [ev |-> "copy", pos |-> c - 1, at |-> i + c - 1]]

\* The guard of find_matches: no way to match with fewer insns than N.
LongEnough(L, N) == L >= N

\* The last start the outer loop tries: i <= insns.size() - N.
LastStart(L, N) == L - N

\* After trying start i the loop goes on at ++i, match or no match.
NextStartSkipsWindow(i, hit, N) == IF hit /\ N > 0 THEN i + N ELSE i + 1
NextStart(i, hit, N) == i + 1

\* The outer loop of find_matches from start i on.
RECURSIVE FindLoop(_, _, _, _)
FindLoop(i, v, p, acc) ==
    IF i > LastStart(Len(v), Len(p)) \/ acc.threw THEN acc
    ELSE CHOOSE res \in
           {LET hit == r.ok /\ ~r.threw
            IN  FindLoop(NextStart(i, hit, Len(p)), v, p,
                         [out |-> IF hit
                                  THEN Append(acc.out, CopyWindow(v, i, 0, Len(p)))
                                  ELSE acc.out,
                          log |-> acc.log \o r.log \o
                                  (IF hit THEN CopyLog(i, Len(p)) ELSE <<>>),
                          threw |-> r.threw]) :
              r \in {matches_at(i, v, p, 0)}} : TRUE

\* find_matches that starts from a cleared output vector.
FindMatchesClears(v, p, m) ==
    IF LongEnough(Len(v), Len(p))
    THEN FindLoop(0, v, p, [out |-> <<>>, log |-> <<>>, threw |-> FALSE])
    ELSE [out |-> <<>>, log |-> <<>>, threw |-> FALSE]
\* find_matches(insns, p, matches).
find_matches(v, p, m) ==
    IF LongEnough(Len(v), Len(p))
    THEN FindLoop(0, v, p, [out |-> m, log |-> <<>>, threw |-> FALSE])
    ELSE [out |-> m, log |-> <<>>, threw |-> FALSE]

\* find_insn_match(insns, p, matches): one emplace_back per element of the
\* range-for that p accepts.
FilterKeepsFirstOnly(acc, insn, p) ==
    PMatches(p, insn) /\ \A k \in 1..Len(acc) : acc[k] # insn
Keeps(acc, insn, p) == PMatches(p, insn)

RECURSIVE ScanLoop(_, _, _, _)
ScanLoop(k, v, p, acc) ==
    IF k > Len(v) THEN acc
    ELSE LET insn == v[k]
             e    == [ev |-> "eval", pos |-> 0, at |-> k - 1]
         IN  ScanLoop(k + 1, v, p,
                      [out |-> IF Keeps(acc.out, insn, p)
                               THEN Append(acc.out, insn) ELSE acc.out,
                       log |-> Append(acc.log, e),
                       threw |-> FALSE])

find_insn_match(v, p, m) == ScanLoop(1, v, p, [out |-> m, log |-> <<>>, threw |-> FALSE])

SeqInit ==
    /\ insns \in SeqsUpTo(InsnIds, MaxLen)
    /\ pattern \in SeqsUpTo(PosPreds, MaxPat)
    /\ matches = <<>> /\ matches0 = <<>>
    /\ found = <<>> /\ found0 = <<>>
    /\ last_p = {}
    /\ seqlog = <<>>
    /\ last = "none"
    /\ calls = 0

SeqIdle ==
    /\ insns = <<>> /\ pattern = <<>>
    /\ matches = <<>> /\ matches0 = <<>>
    /\ found = <<>> /\ found0 = <<>>
    /\ last_p = {}
    /\ seqlog = <<>>
    /\ last = "none"
    /\ calls = 0

CallFindMatches ==
    /\ calls < MaxCalls
    /\ LET r == find_matches(insns, pattern, matches)
       IN  /\ matches' = r.out
           /\ seqlog' = r.log
           /\ last' = IF r.threw THEN "threw" ELSE "find_matches"
    /\ matches0' = matches
    /\ calls' = calls + 1
    /\ UNCHANGED <<insns, pattern, found, found0, last_p>>

CallFindInsnMatch ==
    /\ calls < MaxCalls
    /\ \E p \in PosPreds :
         LET r == find_insn_match(insns, p, found)
         IN  /\ found' = r.out
             /\ seqlog' = r.log
             /\ last_p' = p
    /\ last' = "find_insn_match"
    /\ found0' = found
    /\ calls' = calls + 1
    /\ UNCHANGED <<insns, pattern, matches, matches0>>

(***************************************************************************)
(* PREDICATES: combinators and projections                                 *)
(***************************************************************************)
\* The entities a predicate is finally applied to (a method reference, a
\* field reference, a type, a string, a class: whatever T is).
Operands == {"o1", "o2"}
NoOperand == "nil"

\* The lambdas the pass wraps with matcher(fn).
LeafIds == {"p", "q"}
BinOps  == {"and", "or", "xor"}
ProjOps == {"opcode_method", "opcode_field", "opcode_type", "opcode_string"}

\* The operand kind each projection asks the instruction for.
KindOf(op) ==
    CASE op = "opcode_method" -> "method"
      [] op = "opcode_field"  -> "field"
      [] op = "opcode_type"   -> "type"
      [] op = "opcode_string" -> "string"

Combine(S) ==
    {[op |-> "not", p |-> P] : P \in S}
      \cup {[op |-> o, p |-> P, q |-> Q] : o \in BinOps, P \in S, Q \in S}

Preds0 == {[op |-> "leaf", id |-> i] : i \in LeafIds} \cup {[op |-> "any"]}
Preds1 == Preds0 \cup Combine(Preds0)
Preds2 == Preds1 \cup Combine(Preds1)
InsnPreds == {[op |-> o, p |-> P] : o \in ProjOps, P \in Preds1}
TypePreds == {[op |-> "as_class", p |-> P] : P \in Preds1}

\* An instruction carries at most one reference, of one kind.
Instructions ==
    {[ref |-> k, opnd |-> o] : k \in {"method", "field", "type", "string"}, o \in Operands}
      \cup {[ref |-> "none", opnd |-> NoOperand]}
\* A type and what type_class finds for it (nullptr for a primitive, an
\* array, an unknown external).
Types == {[cls |-> c] : c \in Operands \cup {NoOperand}}

\* The order in which a build evaluates the operands of the built-in ^ .
XorOrders == {"lr", "rl"}

Result(v, l, e) == [val |-> v, log |-> l, err |-> e]
NoMatch == Result(FALSE, <<>>, FALSE)

\* !p.matches(t)
NotOf(r) == Result(~r.val, r.log, r.err)

\* p.matches(t) || q.matches(t): the built-in ||, on two bools.
OrElse(l, r) ==
    IF l.val \/ l.err THEN l ELSE Result(r.val, l.log \o r.log, r.err)

\* p.matches(t) && q.matches(t): the built-in &&, on two bools.
AndEager(l, r) == Result(l.val /\ r.val, l.log \o r.log, l.err \/ r.err)
AndThen(l, r) ==
    IF ~l.val \/ l.err THEN l ELSE Result(r.val, l.log \o r.log, r.err)

\* p.matches(t) ^ q.matches(t): bitwise ^ of the two promoted bools, the int
\* converted back to bool by match_t::matches.
BitXorAsOr(a, b) == a \/ b
BitXor(a, b) == a # b

XorBoth(l, r, ord) ==
    Result(BitXor(l.val, r.val),
           IF ord = "lr" THEN l.log \o r.log ELSE r.log \o l.log,
           l.err \/ r.err)

\* any<T>(): the lambda that ignores its argument.
AnyOf(x) == Result(TRUE, <<[leaf |-> "any", arg |-> x]>>, FALSE)

\* has_method() / has_field() / has_type() / has_string() of the instruction.
Carries(insn, kind) == insn.ref = kind

\* guard && p.matches(operand): the operand is fetched and p applied only
\* when the guard holds.
GuardIgnored(guard, r) == r
GuardThen(guard, r) == IF guard THEN r ELSE NoMatch

RECURSIVE Eval(_, _, _, _)
\* p.matches(get_method()) and its like: fetching an operand the instruction
\* does not carry, or applying p to the null class, is an error.
Delegate(P, present, x, acc, ord) ==
    IF present THEN Eval(P, x, acc, ord) ELSE Result(FALSE, <<>>, TRUE)

\* match_t::matches on predicate P and entity x; acc[i] is the set of
\* entities the leaf lambda i accepts.
Eval(P, x, acc, ord) ==
    CASE P.op = "leaf" -> Result(x \in acc[P.id], <<[leaf |-> P.id, arg |-> x]>>, FALSE)
      [] P.op = "any"  -> AnyOf(x)
      [] P.op = "not"  -> NotOf(Eval(P.p, x, acc, ord))
      [] P.op = "or"   -> OrElse(Eval(P.p, x, acc, ord), Eval(P.q, x, acc, ord))
      [] P.op = "and"  -> AndThen(Eval(P.p, x, acc, ord), Eval(P.q, x, acc, ord))
      [] P.op = "xor"  -> XorBoth(Eval(P.p, x, acc, ord), Eval(P.q, x, acc, ord), ord)
      [] P.op \in ProjOps ->
            GuardThen(Carries(x, KindOf(P.op)),
                      Delegate(P.p, Carries(x, KindOf(P.op)), x.opnd, acc, ord))
      [] P.op = "as_class" ->
            GuardThen(x.cls # NoOperand,
                      Delegate(P.p, x.cls # NoOperand, x.cls, acc, ord))

NotEvaluated == [val |-> FALSE, log |-> <<>>, err |-> FALSE, done |-> FALSE, ord |-> "lr"]

PredInit ==
    /\ accepts \in [LeafIds -> SUBSET Operands]
    /\ \/ pred \in Preds2 /\ subject \in Operands
       \/ pred \in InsnPreds /\ subject \in Instructions
       \/ pred \in TypePreds /\ subject \in Types
    /\ outcome = NotEvaluated

PredIdle ==
    /\ accepts = [i \in LeafIds |-> {}]
    /\ pred = [op |-> "any"]
    /\ subject = "o1"
    /\ outcome = NotEvaluated

\* The pass applies the predicate it built to the entity.
Evaluate ==
    /\ ~outcome.done
    /\ \E ord \in XorOrders :
         LET r == Eval(pred, subject, accepts, ord)
         IN  outcome' = [val |-> r.val, log |-> r.log, err |-> r.err,
                         done |-> TRUE, ord |-> ord]
    /\ UNCHANGED <<pred, subject, accepts>>

(***************************************************************************)
(* TYPE HIERARCHY: is_assignable_to                                        *)
(***************************************************************************)
NumTypes == 4      \* types of the program

TypeIds == 1..NumTypes
NoType  == 0       \* the null superclass of a hierarchy root

\* What type_class finds: nothing (an external or stripped definition), or a
\* class with its superclass and its declared interfaces.  Types are numbered
\* so that every edge leads to a higher number: the hierarchy has no cycle.
Unresolved == [resolved |-> FALSE, super |-> NoType, ifaces |-> {}]
ClassDefs(k) ==
    {Unresolved} \cup
    {[resolved |-> TRUE, super |-> s, ifaces |-> I] :
        s \in {NoType} \cup ((k + 1)..NumTypes), I \in SUBSET ((k + 1)..NumTypes)}

\* Every hierarchy over the types k..NumTypes, as a sequence of definitions;
\* Hierarchies(1)[t] is the definition of type t.
RECURSIVE Hierarchies(_)
Hierarchies(k) ==
    IF k > NumTypes THEN {<<>>}
    ELSE {<<d>> \o h : d \in ClassDefs(k), h \in Hierarchies(k + 1)}

\* type_class(t)
type_class(h, t) == h[t]

\* The types a class names directly: its superclass and declared interfaces.
Ancestors(h, t) ==
    IF type_class(h, t).resolved
    THEN ({type_class(h, t).super} \ {NoType}) \cup type_class(h, t).ifaces
    ELSE {}

\* A set of types as a stack segment, lowest number on top.
RECURSIVE AsStack(_)
AsStack(S) ==
    IF S = {} THEN <<>>
    ELSE LET t == CHOOSE x \in S : \A y \in S : x <= y
         IN  <<t>> \o AsStack(S \ {t})

Idle == [state |-> "idle", val |-> FALSE, todo |-> <<>>, visited |-> {},
         target |-> NoType, steps |-> 0]

\* m::is_assignable_to(parent) applied to child: the lambda hands both to
\* detail::is_assignable_to(child, parent).
StartSwapped(c, p) ==
    [state |-> "running", val |-> FALSE, todo |-> <<p>>, visited |-> {},
     target |-> c, steps |-> 0]
StartWalk(c, p) ==
    [state |-> "running", val |-> FALSE, todo |-> <<c>>, visited |-> {},
     target |-> p, steps |-> 0]

\* One step of detail::is_assignable_to: take the next type to look at;
\* it is the target (match), or already expanded or unresolvable (a dead
\* end), or it is expanded: its superclass and interfaces are to look at.
WalkOn(h, a) ==
    IF a.todo = <<>>
    THEN [a EXCEPT !.state = "done", !.val = FALSE, !.steps = @ + 1]
    ELSE LET t == Head(a.todo)
         IN  IF t = a.target
             THEN [a EXCEPT !.state = "done", !.val = TRUE, !.steps = @ + 1]
             ELSE IF t \in a.visited \/ ~type_class(h, t).resolved
             THEN [a EXCEPT !.todo = Tail(@), !.steps = @ + 1]
             ELSE [a EXCEPT !.todo = AsStack(Ancestors(h, t)) \o Tail(@),
                            !.visited = @ \cup {t}, !.steps = @ + 1]

HierInit ==
    /\ hierarchy \in Hierarchies(1)
    /\ child \in TypeIds
    /\ parent \in TypeIds
    /\ answer = Idle

HierIdle ==
    /\ hierarchy = <<>>
    /\ child = NoType
    /\ parent = NoType
    /\ answer = Idle

CallIsAssignableTo ==
    /\ answer.state = "idle"
    /\ answer' = StartWalk(child, parent)
    /\ UNCHANGED <<hierarchy, child, parent>>

WalkStep ==
    /\ answer.state = "running"
    /\ answer' = WalkOn(hierarchy, answer)
    /\ UNCHANGED <<hierarchy, child, parent>>

(***************************************************************************)
(* METHOD PROFILES: parse_stats_file, parse_line, parse_header             *)
(***************************************************************************)
MaxRows  == 2      \* data rows read from one file
MaxFiles == 2      \* parse_stats_file calls on the same object

\* The columns, as parse_cell's switch numbers them.
INDEX         == 0
NAME          == 1
APPEAR100     == 2
APPEAR_NUMBER == 3
AVG_CALL      == 4
AVG_ORDER     == 5
AVG_RANK100   == 6
MIN_API_LEVEL == 7

Uint8Range == 256  \* static_cast<uint8_t> keeps the value modulo 2^8

ENOENT == 2        \* errno of a failed fopen
EIO    == 5        \* errno of a failed read

\* A line is the sequence of its cells.  A numeric cell is the sequence of
\* its characters, a name or a header cell a string.
DigitVal(c) ==
    CASE c = "0" -> 0 [] c = "1" -> 1 [] c = "2" -> 2 [] c = "3" -> 3
      [] c = "4" -> 4 [] c = "5" -> 5 [] c = "6" -> 6 [] c = "7" -> 7
      [] c = "8" -> 8 [] c = "9" -> 9
IsDigit(c) == c \in {"0", "1", "2", "3", "4", "5", "6", "7", "8", "9"}

\* The number of digits of tok from position k (one-based) on.
RECURSIVE DigitRun(_, _)
DigitRun(tok, k) ==
    IF k <= Len(tok) /\ IsDigit(tok[k]) THEN 1 + DigitRun(tok, k + 1) ELSE 0

RECURSIVE DecimalValue(_)
DecimalValue(ds) ==
    IF ds = <<>> THEN 0
    ELSE 10 * DecimalValue(SubSeq(ds, 1, Len(ds) - 1)) + DigitVal(ds[Len(ds)])

\* strtoul(tok, &rest, 10) on a cell that starts with neither blank nor sign:
\* the value of the leading digits and what follows them.
strtoul(tok) ==
    LET n == DigitRun(tok, 1)
    IN  [value |-> DecimalValue(SubSeq(tok, 1, n)),
         used  |-> n,
         rest  |-> SubSeq(tok, n + 1, Len(tok))]

\* strtod(tok, &rest) on such a cell: digits, then perhaps a point and
\* digits; the value as numerator and number of decimals.
strtod(tok) ==
    LET n1 == DigitRun(tok, 1)
        pt == n1 + 1 <= Len(tok) /\ tok[n1 + 1] = "."
        n2 == IF pt THEN DigitRun(tok, n1 + 2) ELSE 0
        n  == IF pt /\ n1 + n2 > 0 THEN n1 + 1 + n2 ELSE n1
    IN  [value |-> [num |-> DecimalValue(SubSeq(tok, 1, n1) \o
                                          (IF n > n1 THEN SubSeq(tok, n1 + 2, n) ELSE <<>>)),
                    decimals |-> IF n > n1 THEN n2 ELSE 0],
         used  |-> n,
         rest  |-> SubSeq(tok, n + 1, Len(tok))]

\* The two always_assert_log of parse_byte and parse_double: something was
\* parsed, and nothing follows it but at most one newline.
FullyParsed(r) == r.used > 0 /\ (r.rest = <<>> \/ r.rest = <<"\n">>)

\* static_cast<uint8_t>(unsigned long)
ToUint8(v) == v % Uint8Range

parse_byte(tok) ==
    [value |-> ToUint8(strtoul(tok).value), asserted |-> ~FullyParsed(strtoul(tok))]

parse_double(tok) ==
    [value |-> strtod(tok).value, asserted |-> ~FullyParsed(strtod(tok))]

\* DexMethod::get_method(tok): the method reference of that name, or nullptr.
MethodRefs == {"m1", "m2"}
NoRef == "nullptr"
get_method(tok) == IF tok \in MethodRefs THEN tok ELSE NoRef

\* Stats stats;
NoValue == [num |-> 0, decimals |-> 0]
EmptyStats == [appear_percent |-> NoValue, call_count |-> NoValue,
               order_percent |-> NoValue, min_api_level |-> 0]

\* What a pass over the cells of a line carries: the locals ref and stats of
\* parse_line, whether a cell was refused (parse_cell returned false) and
\* whether an always_assert_log failed.
RowStart == [ref |-> NoRef, stats |-> EmptyStats, ok |-> TRUE, asserted |-> FALSE,
             resolved |-> 0]

\* parse_line's parse_cell lambda on cell tok of column i.
RowCell(st, tok, i) ==
    CASE i = INDEX -> st
      [] i = NAME -> [st EXCEPT !.ref = get_method(tok), !.resolved = @ + 1]
      [] i = APPEAR100 ->
            [st EXCEPT !.stats.appear_percent = parse_double(tok).value,
                       !.asserted = parse_double(tok).asserted]
      [] i = APPEAR_NUMBER -> st
      [] i = AVG_CALL ->
            [st EXCEPT !.stats.call_count = parse_double(tok).value,
                       !.asserted = parse_double(tok).asserted]
      [] i = AVG_ORDER -> st
      [] i = AVG_RANK100 ->
            [st EXCEPT !.stats.order_percent = parse_double(tok).value,
                       !.asserted = parse_double(tok).asserted]
      [] i = MIN_API_LEVEL ->
            [st EXCEPT !.stats.min_api_level = parse_byte(tok).value,
                       !.asserted = parse_byte(tok).asserted]
      [] OTHER -> [st EXCEPT !.ok = FALSE]

\* The header names parse_header expects, column by column.
Expected(i) ==
    CASE i = INDEX         -> "index"
      [] i = NAME          -> "name"
      [] i = APPEAR100     -> "appear100"
      [] i = APPEAR_NUMBER -> "appear#"
      [] i = AVG_CALL      -> "avg_call"
      [] i = AVG_ORDER     -> "avg_order"
      [] i = AVG_RANK100   -> "avg_rank100"
      [] i = MIN_API_LEVEL -> "min_api_level"
      [] OTHER             -> "\n"

\* check_cell: strncmp(tok, expected, MAX_CELL_LENGTH) != 0 refuses the
\* cell; every cell here is shorter than MAX_CELL_LENGTH.
CheckCellAcceptsAll(expected, tok) == TRUE
check_cell(expected, tok) == tok = expected

\* parse_header's parse_cell lambda.
HeaderCell(st, tok, i) == [st EXCEPT !.ok = check_cell(Expected(i), tok)]

\* parse_cells(line, parse_cell): the cells in order, numbered from 0, until
\* parse_cell refuses one.
RECURSIVE parse_cells(_, _, _, _)
parse_cells(line, i, st, header) ==
    IF i >= Len(line) THEN st
    ELSE CHOOSE r \in
           {IF ~nxt.ok \/ nxt.asserted THEN nxt
            ELSE parse_cells(line, i + 1, nxt, header) :
              nxt \in {IF header THEN HeaderCell(st, line[i + 1], i)
                       ELSE RowCell(st, line[i + 1], i)}} : TRUE

parse_header(line) == parse_cells(line, 0, RowStart, TRUE)

\* m_method_stats.emplace(ref, stats): a key already there keeps its value.
emplace(m, ref, stats) ==
    IF ref \in DOMAIN m THEN m ELSE [r \in DOMAIN m \cup {ref} |->
                                        IF r = ref THEN stats ELSE m[r]]

\* parse_line(line, first): the header check, or a data row and perhaps
\* its entry.  Gives the pass's outcome and the mapping afterwards.
parse_line(line, isFirst, m) ==
    IF isFirst
    THEN [st |-> parse_header(line), map |-> m]
    ELSE CHOOSE r \in
           {[st |-> st,
             map |-> IF st.ok /\ ~st.asserted /\ st.ref # NoRef
                     THEN emplace(m, st.ref, st.stats) ELSE m] :
              st \in {parse_cells(line, 0, RowStart, FALSE)}} : TRUE

\* ------------------------------------------------------------ the files
GoodHeader == [k \in 1..8 |-> Expected(k - 1)]
HeaderLines ==
    {GoodHeader, GoodHeader \o <<"\n">>}
      \cup {[GoodHeader EXCEPT ![k] = "nmae"] : k \in 1..8}
      \cup {[GoodHeader EXCEPT ![8] = "min_api_level\n"], GoodHeader \o <<"extra">>,
            [GoodHeader \o <<"\n">> EXCEPT ![2] = "nmae"]}

Row(name, appear, level) ==
    <<"0", name, appear, "100", <<"3", ".", "2">>, "5", <<"5", "0", ".", "0">>, level>>

GoodDouble == <<"1", "2", ".", "5">>
RowLines ==
    {Row("m1", GoodDouble, b) :
        b \in {<<"2", "1">>, <<"2", "5", "5", "\n">>, <<"2", "5", "6">>, <<"x">>,
               <<"7", "x">>, <<"2", "1", "\n", "\n">>, <<"3", "0", "0", "\n">>}}
      \cup {Row("unknown", GoodDouble, b) : b \in {<<"2", "1">>, <<"2", "5", "6">>, <<"x">>}}
      \cup {Row("m2", GoodDouble, <<"2", "1">>),
            Row("m1", <<"1", "x">>, <<"2", "1">>),
            Row("m1", GoodDouble, <<"2", "1">>) \o <<"9">>}

Closed == [open |-> FALSE, header |-> <<>>]

CsvInit ==
    /\ m_method_stats = <<>>
    /\ errno = 0
    /\ fp = Closed
    /\ first = TRUE
    /\ pc = "idle"
    /\ ret = "none"
    /\ cause = "none"
    /\ stats0 = <<>>
    /\ rows = <<>>
    /\ nfiles = 0

CanCall == pc \in {"idle", "done"} /\ nfiles < MaxFiles

\* parse_stats_file(""): no csv file given.
CallNoFilename ==
    /\ CanCall
    /\ pc' = "done" /\ ret' = "false" /\ cause' = "no_file"
    /\ stats0' = m_method_stats /\ rows' = <<>> /\ nfiles' = nfiles + 1
    /\ fp' = Closed /\ first' = TRUE
    /\ UNCHANGED <<m_method_stats, errno>>

\* fopen fails: errno says why, the call returns false.
CallOpenFails ==
    /\ CanCall
    /\ errno' = ENOENT
    /\ pc' = "done" /\ ret' = "false" /\ cause' = "open"
    /\ stats0' = m_method_stats /\ rows' = <<>> /\ nfiles' = nfiles + 1
    /\ fp' = Closed /\ first' = TRUE
    /\ UNCHANGED m_method_stats

\* fopen succeeds (errno is left as it is): the getline loop starts.
CallOpens ==
    /\ CanCall
    /\ pc' = "reading" /\ ret' = "none" /\ cause' = "none"
    /\ stats0' = m_method_stats /\ rows' = <<>> /\ nfiles' = nfiles + 1
    /\ fp' = [open |-> TRUE, header |-> <<>>] /\ first' = TRUE
    /\ UNCHANGED <<m_method_stats, errno>>

\* What parse_stats_file does with parse_line's answer: go on, or clean up
\* and return false; a failed always_assert_log leaves the call at once.
AfterLine(st, isFirst) ==
    IF st.asserted THEN [pc |-> "done", ret |-> "threw", cause |-> "numeric"]
    ELSE IF ~st.ok THEN [pc |-> "done", ret |-> "false",
                         cause |-> IF isFirst THEN "header" ELSE "columns"]
    ELSE [pc |-> "reading", ret |-> "none", cause |-> "none"]

\* getline reads the header line.
ReadHeader ==
    /\ pc = "reading" /\ first
    /\ \E line \in HeaderLines :
         \E r \in {parse_line(line, TRUE, m_method_stats)} :
         \E a \in {AfterLine(r.st, TRUE)} :
             /\ m_method_stats' = r.map
             /\ pc' = a.pc /\ ret' = a.ret /\ cause' = a.cause
             /\ fp' = [open |-> a.pc = "reading", header |-> line]
    /\ first' = FALSE
    /\ UNCHANGED <<errno, stats0, rows, nfiles>>

\* getline reads a data row.
ReadRow ==
    /\ pc = "reading" /\ ~first /\ Len(rows) < MaxRows
    /\ \E line \in RowLines :
         \E r \in {parse_line(line, FALSE, m_method_stats)} :
         \E a \in {AfterLine(r.st, FALSE)} :
             /\ m_method_stats' = r.map
             /\ pc' = a.pc /\ ret' = a.ret /\ cause' = a.cause
             /\ fp' = [fp EXCEPT !.open = (a.pc = "reading")]
             /\ rows' = Append(rows, [line |-> line, st |-> r.st])
    /\ UNCHANGED <<errno, first, stats0, nfiles>>

\* What the call returns once getline has returned -1.
AtEnd(e) ==
    IF e # 0 THEN [ret |-> "false", cause |-> "errno"]
    ELSE [ret |-> "true", cause |-> "none"]

\* getline returns -1 at the end of the file; it leaves errno as it is.
EndOfFile ==
    /\ pc = "reading"
    /\ pc' = "done" /\ ret' = AtEnd(errno).ret /\ cause' = AtEnd(errno).cause
    /\ fp' = [fp EXCEPT !.open = FALSE]
    /\ UNCHANGED <<m_method_stats, errno, first, stats0, rows, nfiles>>

\* getline returns -1 because the read failed; errno says why.
ReadFails ==
    /\ pc = "reading"
    /\ errno' = EIO
    /\ pc' = "done" /\ ret' = AtEnd(EIO).ret
    /\ cause' = IF AtEnd(EIO).ret = "false" THEN "read" ELSE "none"
    /\ fp' = [fp EXCEPT !.open = FALSE]
    /\ UNCHANGED <<m_method_stats, first, stats0, rows, nfiles>>

(***************************************************************************)
(* THE SPECIFICATIONS                                                      *)
(***************************************************************************)
Next ==
    \/ CallFindMatches /\ UNCHANGED <<predVars, hierVars, csvVars>>
    \/ CallFindInsnMatch /\ UNCHANGED <<predVars, hierVars, csvVars>>
Init == SeqInit /\ PredIdle /\ HierIdle /\ CsvInit
Spec == Init /\ [][Next]_vars

PredNext == Evaluate /\ UNCHANGED <<seqVars, hierVars, csvVars>>
InitPred == SeqIdle /\ PredInit /\ HierIdle /\ CsvInit
SpecPred == InitPred /\ [][PredNext]_vars

HierNext ==
    \/ CallIsAssignableTo /\ UNCHANGED <<seqVars, predVars, csvVars>>
    \/ WalkStep /\ UNCHANGED <<seqVars, predVars, csvVars>>
InitHier == SeqIdle /\ PredIdle /\ HierInit /\ CsvInit
SpecHier == InitHier /\ [][HierNext]_vars

CsvNext ==
    \/ CallNoFilename /\ UNCHANGED <<seqVars, predVars, hierVars>>
    \/ CallOpenFails /\ UNCHANGED <<seqVars, predVars, hierVars>>
    \/ CallOpens /\ UNCHANGED <<seqVars, predVars, hierVars>>
    \/ ReadHeader /\ UNCHANGED <<seqVars, predVars, hierVars>>
    \/ ReadRow /\ UNCHANGED <<seqVars, predVars, hierVars>>
    \/ EndOfFile /\ UNCHANGED <<seqVars, predVars, hierVars>>
    \/ ReadFails /\ UNCHANGED <<seqVars, predVars, hierVars>>
InitCsv == SeqIdle /\ PredIdle /\ HierIdle /\ CsvInit
SpecCsv == InitCsv /\ [][CsvNext]_vars

(***************************************************************************)
(* THE CLAIMS                                                              *)
(***************************************************************************)
\* The starts at which every position predicate accepts its instruction.
Starts(v, p) ==
    {s \in 0..(Len(v) - Len(p)) : \A i \in 1..Len(p) : PMatches(p[i], v[s + i])}
\* The k-th smallest element of a set of starts.
KthStart(S, k) == CHOOSE s \in S : Cardinality({u \in S : u < s}) = k - 1

\* C1: find_matches called with an empty output yields exactly one window
\* for each start s in [0, L-N] at which all N predicates match, in ascending
\* start order, each window being insns[s..s+N-1]; overlapping starts are all
\* reported, and nothing is reported when L < N.  No call ends in an error.
C1_AllWindows ==
    /\ last # "threw"
    /\ (last = "find_matches" /\ matches0 = <<>>) =>
         LET S == Starts(insns, pattern)
         IN  /\ Len(matches) = Cardinality(S)
             /\ \A k \in 1..Len(matches) :
                  matches[k] = SubSeq(insns, KthStart(S, k) + 1,
                                      KthStart(S, k) + Len(pattern))
\* C1 witness: a pattern of two positions matched at two adjacent starts.
C1_Witness ==
    /\ last = "find_matches" /\ matches0 = <<>>
    /\ Len(pattern) = 2
    /\ {1, 2} \subseteq Starts(insns, pattern)
    /\ ~(0 \in Starts(insns, pattern))
    /\ Len(matches) = 2
    /\ matches[1] # matches[2]

Occurrences(sq, x) == Cardinality({k \in 1..Len(sq) : sq[k] = x})
IsSubsequence(sub, sq) ==
    \E f \in [1..Len(sub) -> 1..Len(sq)] :
        /\ \A k \in 1..Len(sub) : sub[k] = sq[f[k]]
        /\ \A j, k \in 1..Len(sub) : j < k => f[j] < f[k]

\* C5 as stated: find_insn_match called with an empty output returns the
\* matching instructions in input order, each qualifying instruction exactly
\* once, and no instruction that does not match.
C5_ExactlyOnce ==
    (last = "find_insn_match" /\ found0 = <<>>) =>
        /\ \A k \in 1..Len(found) : PMatches(last_p, found[k])
        /\ IsSubsequence(found, insns)
        /\ \A k \in 1..Len(insns) :
             PMatches(last_p, insns[k]) => Occurrences(found, insns[k]) = 1
\* C5 amended: find_insn_match called with an empty output returns, in input
\* order, one entry for each position of the list whose instruction matches:
\* an instruction appears as often as it occurs in the list (exactly once when
\* the list holds it once), and no instruction that does not match appears.
C5_OnePerPosition ==
    (last = "find_insn_match" /\ found0 = <<>>) =>
        /\ found = SelectSeq(insns, LAMBDA x : PMatches(last_p, x))
        /\ \A x \in InsnIds :
             Occurrences(found, x) =
                IF PMatches(last_p, x) THEN Occurrences(insns, x) ELSE 0
\* C5 witness: a matching instruction at two positions is returned twice.
C5_Witness ==
    /\ last = "find_insn_match" /\ found0 = <<>>
    /\ \E x \in InsnIds :
         /\ PMatches(last_p, x)
         /\ Occurrences(insns, x) = 2
         /\ Occurrences(found, x) = 2
    /\ \E k \in 1..Len(insns) : ~PMatches(last_p, insns[k])

\* The first position of the window at start s whose predicate rejects its
\* instruction, Len(p) if every position accepts.
FirstFail(v, p, s) ==
    IF s \in Starts(v, p) THEN Len(p)
    ELSE CHOOSE k \in 0..(Len(p) - 1) :
           /\ ~PMatches(p[k + 1], v[s + k + 1])
           /\ \A j \in 0..(k - 1) : PMatches(p[j + 1], v[s + j + 1])
\* What one window may do: evaluate positions 0..FirstFail in order, then copy
\* its N instructions if and only if no position failed.
WindowLog(v, p, s) ==
    LET f == FirstFail(v, p, s)
        n == IF f = Len(p) THEN f ELSE f + 1
    IN  [k \in 1..n |-> [ev |-> "eval", pos |-> k - 1, at |-> s + k - 1]] \o
        (IF f = Len(p)
         THEN [c \in 1..Len(p) |-> [ev |-> "copy", pos |-> c - 1, at |-> s + c - 1]]
         ELSE <<>>)
RECURSIVE WindowLogsFrom(_, _, _)
WindowLogsFrom(v, p, s) ==
    IF s > Len(v) - Len(p) THEN <<>>
    ELSE WindowLog(v, p, s) \o WindowLogsFrom(v, p, s + 1)

\* C11: within each candidate window starting at s, find_matches evaluates the
\* position predicates in order 0, 1, ..., stops at the first position whose
\* predicate fails (no later position of that window is evaluated), never
\* reads an instruction index >= L, and copies the N instructions of a window
\* only after all N positions matched; windows are tried in ascending start
\* order.
C11_ShortCircuit ==
    /\ last # "threw"
    /\ last = "find_matches" =>
         /\ seqlog = WindowLogsFrom(insns, pattern, 0)
         /\ \A k \in 1..Len(seqlog) :
              /\ seqlog[k].ev \in {"eval", "copy"}
              /\ seqlog[k].at >= 0 /\ seqlog[k].at < Len(insns)
              /\ seqlog[k].ev = "copy" =>
                   (seqlog[k].at - seqlog[k].pos) \in Starts(insns, pattern)
              /\ (seqlog[k].ev = "eval" /\ seqlog[k].pos > 0) =>
                   PMatches(pattern[seqlog[k].pos], insns[seqlog[k].at])
\* C11 witness: a pattern of two positions; one window fails at position 0 and
\* its position 1 is never evaluated, another fails at position 1, and a third
\* matches at both positions and is copied.
C11_Witness ==
    /\ last = "find_matches"
    /\ Len(pattern) = 2
    /\ \E s \in 0..(Len(insns) - 2) :
         /\ FirstFail(insns, pattern, s) = 0
         /\ PMatches(pattern[2], insns[s + 2])
         /\ ~(\E k \in 1..Len(seqlog) :
                seqlog[k] = [ev |-> "eval", pos |-> 1, at |-> s + 1])
    /\ \E s \in 0..(Len(insns) - 2) : FirstFail(insns, pattern, s) = 1
    /\ \E s \in Starts(insns, pattern) :
         \E k \in 1..Len(seqlog) :
            seqlog[k] = [ev |-> "copy", pos |-> 1, at |-> s + 1]

\* The windows find_matches reports, in ascending start order.
Windows(v, p) ==
    LET S == Starts(v, p)
    IN  [k \in 1..Cardinality(S) |->
            SubSeq(v, KthStart(S, k) + 1, KthStart(S, k) + Len(p))]
\* out extends old by exactly the entries of added, old left in place.
Extends(out, old, added) == out = old \o added

\* C12: find_matches and find_insn_match only append to the caller's output
\* vector and never clear it: every entry present before the call is still
\* present, unchanged and in the same position, after it, the new matches
\* follow them, and the instruction list is left unchanged; when L < N
\* find_matches leaves the output vector exactly as it was.
C12_AppendOnly ==
    [][/\ insns' = insns
       /\ Len(matches') >= Len(matches)
       /\ SubSeq(matches', 1, Len(matches)) = matches
       /\ Len(found') >= Len(found)
       /\ SubSeq(found', 1, Len(found)) = found
       /\ last' = "find_matches" =>
            /\ Extends(matches', matches, Windows(insns, pattern))
            /\ found' = found
            /\ Len(insns) < Len(pattern) => matches' = matches
       /\ last' = "find_insn_match" =>
            /\ Extends(found', found,
                       SelectSeq(insns, LAMBDA x : PMatches(last_p', x)))
            /\ matches' = matches]_vars
\* C12 witness: a second find_matches call appended its windows behind the
\* entries the first call had left in the output vector.
C12_Witness ==
    /\ calls = 2
    /\ last = "find_matches"
    /\ matches0 # <<>>
    /\ Len(matches) > Len(matches0)
    /\ SubSeq(matches, 1, Len(matches0)) = matches0
    /\ found = <<>>

GenericOps == {"leaf", "any", "not", "and", "or", "xor"}
Sub(P) == Eval(P, subject, accepts, outcome.ord)

\* C2: not(p) matches iff p does not, and(p, q) iff both do, or(p, q) iff at
\* least one does, xor(p, q) iff exactly one does, and any() always matches.
C2_Combinators ==
    (outcome.done /\ pred.op \in GenericOps) =>
        /\ ~outcome.err
        /\ pred.op = "not" => (outcome.val <=> ~Sub(pred.p).val)
        /\ pred.op = "and" => (outcome.val <=> (Sub(pred.p).val /\ Sub(pred.q).val))
        /\ pred.op = "or"  => (outcome.val <=> (Sub(pred.p).val \/ Sub(pred.q).val))
        /\ pred.op = "xor" => (outcome.val <=> (Sub(pred.p).val # Sub(pred.q).val))
        /\ pred.op = "any" => outcome.val
\* C2 witness: an xor of two composite predicates that both match.
C2_Witness ==
    /\ outcome.done /\ pred.op = "xor"
    /\ pred.p.op = "and" /\ pred.q.op = "or"
    /\ Sub(pred.p).val /\ Sub(pred.q).val
    /\ ~outcome.val

\* C4: a projection on an instruction that does not carry the operand is
\* false, invokes nothing and raises no error; on one that carries it the
\* result is that of p on the operand.  as_class on a type without a class
\* is false and invokes nothing.
C4_FailClosed ==
    outcome.done =>
        /\ pred.op \in ProjOps =>
             IF Carries(subject, KindOf(pred.op))
             THEN /\ outcome.val = Eval(pred.p, subject.opnd, accepts, outcome.ord).val
                  /\ outcome.log = Eval(pred.p, subject.opnd, accepts, outcome.ord).log
                  /\ ~outcome.err
             ELSE ~outcome.val /\ outcome.log = <<>> /\ ~outcome.err
        /\ pred.op = "as_class" =>
             IF subject.cls # NoOperand
             THEN /\ outcome.val = Eval(pred.p, subject.cls, accepts, outcome.ord).val
                  /\ outcome.log = Eval(pred.p, subject.cls, accepts, outcome.ord).log
                  /\ ~outcome.err
             ELSE ~outcome.val /\ outcome.log = <<>> /\ ~outcome.err
\* C4 witness: opcode_method(any) on an instruction that carries a field.
C4_Witness ==
    /\ outcome.done
    /\ pred.op = "opcode_method" /\ pred.p.op = "any"
    /\ subject.ref = "field"
    /\ ~outcome.val /\ outcome.log = <<>>

\* C6: and evaluates p, and q only if p matched; or evaluates p, and q only
\* if p did not match; xor evaluates both p and q whatever they answer.
C6_EvaluationOrder ==
    (outcome.done /\ pred.op \in BinOps) =>
        LET l == Sub(pred.p)
            r == Sub(pred.q)
        IN  /\ pred.op = "and" =>
                 outcome.log = IF l.val THEN l.log \o r.log ELSE l.log
            /\ pred.op = "or" =>
                 outcome.log = IF l.val THEN l.log ELSE l.log \o r.log
            /\ pred.op = "xor" =>
                 outcome.log \in {l.log \o r.log, r.log \o l.log}
            /\ Len(l.log) > 0 /\ Len(r.log) > 0
\* C6 witness: an and whose left side fails, so the right side is not run.
C6_Witness ==
    /\ outcome.done /\ pred.op = "and"
    /\ ~Sub(pred.p).val
    /\ outcome.log = Sub(pred.p).log
    /\ Len(outcome.log) < Len(Sub(pred.p).log) + Len(Sub(pred.q).log)

\* The types reachable from a set through the edges of resolvable classes.
RECURSIVE Closure(_, _, _)
Closure(h, S, n) ==
    IF n = 0 THEN S
    ELSE Closure(h, S \cup UNION {Ancestors(h, t) : t \in S}, n - 1)
Reachable(h, c) == Closure(h, {c}, NumTypes)

\* Every step but the last looks at one type of the stack; a class is
\* expanded once and puts at most NumTypes types on it.
WalkBound == 2 + NumTypes * NumTypes

\* C3: is_assignable_to(X) on C ends, within WalkBound steps, and answers
\* true exactly when C is X or X is reachable from C through superclass and
\* declared-interface edges of resolvable classes.
C3_Assignable ==
    /\ answer.steps <= WalkBound
    /\ answer.state = "running" => answer.steps < WalkBound
    /\ answer.state = "done" =>
         (answer.val <=> parent \in Reachable(hierarchy, child))
\* C3 witness: a diamond: the candidate declares two interfaces that both
\* extend the target, next to an unresolvable superclass.
C3_Witness ==
    /\ answer.state = "done" /\ answer.val
    /\ child # parent
    /\ type_class(hierarchy, child).resolved
    /\ type_class(hierarchy, child).super # NoType
    /\ ~type_class(hierarchy, type_class(hierarchy, child).super).resolved
    /\ \E i, j \in type_class(hierarchy, child).ifaces :
         /\ i # j
         /\ type_class(hierarchy, i).resolved /\ type_class(hierarchy, j).resolved
         /\ parent \in type_class(hierarchy, i).ifaces
         /\ parent \in type_class(hierarchy, j).ifaces

\* A header line with a column that is not the expected name.
HeaderMismatch(line) ==
    \E k \in 1..Len(line) : k <= MIN_API_LEVEL + 1 /\ line[k] # Expected(k - 1)

\* C7: a header with a column that differs from the expected name ends the
\* call with failure before any data row is parsed: no name is resolved and
\* the mapping is as it was when the call started.
C7_HeaderAborts ==
    (fp.header # <<>> /\ HeaderMismatch(fp.header)) =>
        /\ pc = "done" /\ ret = "false" /\ cause = "header"
        /\ rows = <<>>
        /\ m_method_stats = stats0
\* C7 witness: only the last of the eight columns is misspelled.
C7_Witness ==
    /\ pc = "done" /\ cause = "header"
    /\ Len(fp.header) = 8
    /\ \A k \in 1..7 : fp.header[k] = Expected(k - 1)
    /\ fp.header[8] # Expected(7)
    /\ rows = <<>>

\* C8 as stated: a call that aborts on a file-open failure, a header
\* mismatch or a malformed numeric cell leaves in the mapping no entry from
\* the rows of that file read before the failing row.
C8_NoPartialResult ==
    (pc = "done" /\ cause \in {"open", "header", "numeric"}) =>
        m_method_stats = stats0

\* A line of eight cells whose numeric cells parse fully.
WellFormedRow(line) ==
    /\ Len(line) = MIN_API_LEVEL + 1
    /\ FullyParsed(strtod(line[APPEAR100 + 1]))
    /\ FullyParsed(strtod(line[AVG_CALL + 1]))
    /\ FullyParsed(strtod(line[AVG_RANK100 + 1]))
    /\ FullyParsed(strtoul(line[MIN_API_LEVEL + 1]))

\* C9 as stated: with a correct header and well-formed rows, a row whose
\* name does not resolve adds no entry and does not abort; once all lines
\* are read every row whose name resolves has an entry and the call reports
\* success.
C9_DropsAndSucceeds ==
    (/\ pc = "done"
     /\ fp.header = GoodHeader
     /\ \A k \in 1..Len(rows) : WellFormedRow(rows[k].line)
     /\ cause # "read") =>
        /\ ret = "true"
        /\ \A k \in 1..Len(rows) :
             get_method(rows[k].line[NAME + 1]) # NoRef =>
                get_method(rows[k].line[NAME + 1]) \in DOMAIN m_method_stats
        /\ DOMAIN m_method_stats =
             DOMAIN stats0 \cup
               ({get_method(rows[k].line[NAME + 1]) : k \in 1..Len(rows)} \ {NoRef})

\* C10 as stated: for a data row whose name resolves, the stored
\* min_api_level is the decimal integer written in column 8 and lies in
\* 0..255; an integer above 255 is never stored as another value.
C10_ByteAsWritten ==
    \A k \in 1..Len(rows) :
        LET ref == rows[k].st.ref
        IN  (/\ rows[k].st.ok /\ ~rows[k].st.asserted
             /\ ref # NoRef
             /\ ref \notin DOMAIN stats0
             /\ \A j \in 1..(k - 1) : rows[j].st.ref # ref) =>
                /\ m_method_stats[ref].min_api_level =
                      strtoul(rows[k].line[MIN_API_LEVEL + 1]).value
                /\ m_method_stats[ref].min_api_level \in 0..(Uint8Range - 1)
=============================================================================
